---- MODULE Spec2Model ----
(***************************************************************************)
(* Call-state orchestration of api/src/server.py: the two in-memory maps   *)
(* call_status and room_config, the /call/initiate handler as a thread     *)
(* that other request handlers interleave with, and the three carrier      *)
(* webhooks.  Python strings that the code only compares are TLA+ strings; *)
(* strings the code edits character by character (phone numbers, the       *)
(* callback base URL, room names) are sequences of one-character strings.  *)
(***************************************************************************)
EXTENDS Integers, Sequences, FiniteSets, TLC

\* ------------------------------------------------------------------ bounds

\* Number of /call/initiate requests (one request-handling thread each).
MaxCalls == 2

\* ------------------------------------------------------------- Python values

\* None where the code compares strings, and None where it handles a phone
\* number (a sequence here; no phone number has a multi-character element).
None == "None"
NoneSeq == <<"None">>

\* Truthy that takes only a missing value for false (an `is None' test)
Truthy_NoneOnly(v) == v # None

\* Python truthiness of a str-or-None value.
Truthy(v) == v # None /\ v # ""
TruthySeq(v) == v # NoneSeq /\ v # <<>>

RECURSIVE Remove(_, _)
\* str.replace(ch, ''): every occurrence of the character is dropped.
Remove(s, ch) ==
    IF s = <<>> THEN <<>>
    ELSE IF Head(s) = ch THEN Remove(Tail(s), ch)
    ELSE <<Head(s)>> \o Remove(Tail(s), ch)

\* str.startswith(prefix)
StartsWith(s, prefix) ==
    /\ Len(s) >= Len(prefix)
    /\ SubSeq(s, 1, Len(prefix)) = prefix

\* str(uuid.uuid4()): the n-th identifier drawn; distinct draws are distinct.
uuid4(n) == "call-" \o ToString(n)

\* call.sid of the n-th call the carrier accepts.
CallSid(n) == "CA" \o ToString(n)

\* ------------------------------------------------------------- input sets

Threads == 1..MaxCalls

\* An identifier no call has, for callbacks that match no CallRecord.
UnknownCallId == uuid4(0)
UnknownSid == CallSid(0)

\* JSON bodies posted to /call/initiate (absent keys are None).
Requests ==
    { [phone_number |-> <<"+", "1", "5">>, language |-> "es-ES",
       language_name |-> "Spanish", prompt |-> "book a table"],
      [phone_number |-> <<"1", "6">>, language |-> None,
       language_name |-> None, prompt |-> "say hello"],
      [phone_number |-> NoneSeq, language |-> None,
       language_name |-> None, prompt |-> "say hello"],
      [phone_number |-> <<"+", "1", "5">>, language |-> "es-ES",
       language_name |-> "Spanish", prompt |-> ""],
      [phone_number |-> << >>, language |-> None,
       language_name |-> None, prompt |-> "say hello"],
      [phone_number |-> <<"1", "6">>, language |-> None,
       language_name |-> None, prompt |-> None] }

\* CallStatus values a status callback may carry (None: the field is absent).
Phases ==
    {"queued", "ringing", "in-progress", "completed", "busy", "failed",
     "no-answer", "canceled", "weird-phase", None}

\* DialCallStatus values a dial-status callback may carry.
DialOutcomes == {"failed", "completed", None}

\* Values of the environment the process may be started with.
TwilioNumbers == { <<>>, <<"+", "1", " ", "2", "-", "3">> }
ApiBaseUrls == { <<"h", "t", "t", "p", "s", ":", "/", "/", "a">>, <<"a">> }

VARIABLES
    TWILIO_PHONE_NUMBER,  \* environment, fixed at start-up
    twilio_client,        \* TRUE iff the carrier client was constructed
    API_BASE_URL,         \* environment, fixed at start-up
    call_status,          \* dict call_id -> CallRecord
    call_keys,            \* insertion order of call_status' keys
    room_config,          \* dict room_name -> RoomConfig
    uuids,                \* number of uuid4() draws so far
    sids,                 \* number of calls the carrier has accepted
    pc,                   \* per thread: position in initiate_call
    data,                 \* per thread: request.json
    call_id,              \* per thread: local call_id
    call,                 \* per thread: call.sid returned by calls.create
    resp,                 \* per thread: the response returned
    sent,                 \* carrier: a delivered status callback kept for redelivery
    room_call             \* the last call of generate_room_name: inputs and result

vars == <<TWILIO_PHONE_NUMBER, twilio_client, API_BASE_URL, call_status,
          call_keys, room_config, uuids, sids, pc, data, call_id, call, resp,
          sent, room_call>>

\* what no request handler assigns
env_vars ==
    <<TWILIO_PHONE_NUMBER, twilio_client, API_BASE_URL, sent, room_call>>

\* ------------------------------------------------------------- dictionaries

\* d[k] = v of a Python dict modelled as a function
Put(d, k, v) == [x \in DOMAIN d \cup {k} |-> IF x = k THEN v ELSE d[x]]

\* data.get(key, default)
GetOr(v, default) == IF v = None THEN default ELSE v

\* ------------------------------------------------------------- initiate_call

\* predicted_room_name
PredictedRoomName(twilio_number) ==
    <<"c", "a", "l", "l", "_">> \o
        Remove(Remove(Remove(twilio_number, "+"), " "), "-")

\* the CallRecord stored under call_id
NewCallRecord(d, room) ==
    [status |-> "initiating",
     phone |-> d.phone_number,
     language |-> GetOr(d.language, "en-US"),
     language_name |-> GetOr(d.language_name, "English"),
     prompt |-> d.prompt,
     room_name |-> room,
     twilio_call_sid |-> None]

\* the RoomConfig stored under the predicted room name
NewRoomConfig(d, cid) ==
    [phone |-> d.phone_number,
     language |-> GetOr(d.language, "en-US"),
     language_name |-> GetOr(d.language_name, "English"),
     prompt |-> d.prompt,
     call_id |-> cid]

\* PutRoomConfig with the store of the RoomConfig left out
PutRoomConfig_Skipped(rc, room, cfg) == rc

\* room_config[predicted_room_name] = {...}
PutRoomConfig(rc, room, cfg) == Put(rc, room, cfg)

\* call_status[call_id]['twilio_call_sid'] = call.sid
SetCallSid(cs, cid, sid) == [cs EXCEPT ![cid].twilio_call_sid = sid]

\* SetQueued with the status write left out
SetQueued_NotWritten(cs, cid) == cs

\* SetQueued that rewrites the record's carrier call id along with the status
SetQueued_ResetsSid(cs, cid) ==
    [cs EXCEPT ![cid].status = "queued", ![cid].twilio_call_sid = None]

\* call_status[call_id]['status'] = 'queued'
SetQueued(cs, cid) == [cs EXCEPT ![cid].status = "queued"]

\* SetFailed with the status write left out of the except branch
SetFailed_NotWritten(cs, cid) == cs

\* call_status[call_id]['status'] = 'failed'
SetFailed(cs, cid) == [cs EXCEPT ![cid].status = "failed"]

NoResponse == [code |-> 0]

Response(code, success, cid, room, sid, status) ==
    [code |-> code, success |-> success, call_id |-> cid,
     predicted_room_name |-> room, twilio_call_sid |-> sid, status |-> status]

\* Lines 128-169: validation, the call id, the source-number check and the
\* CallRecord.
InitiateStart(t, d) ==
    /\ pc[t] = "start"
    /\ data' = [data EXCEPT ![t] = d]
    /\ IF ~TruthySeq(d.phone_number) \/ ~Truthy(d.prompt)
       THEN /\ resp' = [resp EXCEPT ![t] =
                           Response(400, FALSE, None, NoneSeq, None, None)]
            /\ pc' = [pc EXCEPT ![t] = "done"]
            /\ UNCHANGED <<call_status, call_keys, uuids, call_id>>
       ELSE /\ uuids' = uuids + 1
            /\ call_id' = [call_id EXCEPT ![t] = uuid4(uuids + 1)]
            /\ IF ~TruthySeq(TWILIO_PHONE_NUMBER)
               THEN /\ resp' = [resp EXCEPT ![t] =
                                   Response(500, FALSE, None, NoneSeq, None, None)]
                    /\ pc' = [pc EXCEPT ![t] = "done"]
                    /\ UNCHANGED <<call_status, call_keys>>
               ELSE /\ call_status' =
                           Put(call_status, uuid4(uuids + 1),
                               NewCallRecord(d, PredictedRoomName(TWILIO_PHONE_NUMBER)))
                    /\ call_keys' = Append(call_keys, uuid4(uuids + 1))
                    /\ pc' = [pc EXCEPT ![t] = "store_config"]
                    /\ UNCHANGED resp
    /\ UNCHANGED <<env_vars, room_config, sids, call>>

\* InitiateStoreConfig that answers 500 when the carrier client is missing
InitiateStoreConfig_NoClientFails(t) ==
    /\ pc[t] = "store_config"
    /\ room_config' =
           PutRoomConfig(room_config, PredictedRoomName(TWILIO_PHONE_NUMBER),
                         NewRoomConfig(data[t], call_id[t]))
    /\ IF ~twilio_client
       THEN /\ resp' = [resp EXCEPT ![t] =
                           Response(500, FALSE, call_id[t], NoneSeq, None, None)]
            /\ pc' = [pc EXCEPT ![t] = "done"]
       ELSE /\ pc' = [pc EXCEPT ![t] = "dial"]
            /\ UNCHANGED resp
    /\ UNCHANGED <<env_vars, call_status, call_keys, uuids, sids, data,
                   call_id, call>>

\* Lines 171-224: the RoomConfig, then the checks that precede the dial.
InitiateStoreConfig(t) ==
    /\ pc[t] = "store_config"
    /\ room_config' =
           PutRoomConfig(room_config, PredictedRoomName(TWILIO_PHONE_NUMBER),
                         NewRoomConfig(data[t], call_id[t]))
    /\ IF ~twilio_client
       THEN /\ resp' = [resp EXCEPT ![t] =
                           Response(200, TRUE, call_id[t],
                                    PredictedRoomName(TWILIO_PHONE_NUMBER),
                                    None, "ready")]
            /\ pc' = [pc EXCEPT ![t] = "done"]
       ELSE IF ~( \/ StartsWith(API_BASE_URL, <<"h", "t", "t", "p", ":", "/", "/">>)
                  \/ StartsWith(API_BASE_URL, <<"h", "t", "t", "p", "s", ":", "/", "/">>) )
       THEN /\ resp' = [resp EXCEPT ![t] =
                           Response(500, FALSE, call_id[t], NoneSeq, None, None)]
            /\ pc' = [pc EXCEPT ![t] = "done"]
       ELSE /\ pc' = [pc EXCEPT ![t] = "dial"]
            /\ UNCHANGED resp
    /\ UNCHANGED <<env_vars, call_status, call_keys, uuids, sids, data,
                   call_id, call>>

\* Lines 228-236: twilio_client.calls.create returns a call with a new sid.
InitiateDialAccepted(t) ==
    /\ pc[t] = "dial"
    /\ sids' = sids + 1
    /\ call' = [call EXCEPT ![t] = CallSid(sids + 1)]
    /\ pc' = [pc EXCEPT ![t] = "set_sid"]
    /\ UNCHANGED <<env_vars, call_status, call_keys, room_config, uuids,
                   data, call_id, resp>>

\* Lines 228-236, 252: twilio_client.calls.create raises.
InitiateDialRejected(t) ==
    /\ pc[t] = "dial"
    /\ pc' = [pc EXCEPT ![t] = "set_failed"]
    /\ UNCHANGED <<env_vars, call_status, call_keys, room_config, uuids,
                   sids, data, call_id, call, resp>>

\* Line 238
InitiateSetSid(t) ==
    /\ pc[t] = "set_sid"
    /\ call_status' = SetCallSid(call_status, call_id[t], call[t])
    /\ pc' = [pc EXCEPT ![t] = "set_queued"]
    /\ UNCHANGED <<env_vars, call_keys, room_config, uuids, sids, data,
                   call_id, call, resp>>

\* Lines 239-250
InitiateSetQueued(t) ==
    /\ pc[t] = "set_queued"
    /\ call_status' = SetQueued(call_status, call_id[t])
    /\ resp' = [resp EXCEPT ![t] =
                   Response(200, TRUE, call_id[t],
                            PredictedRoomName(TWILIO_PHONE_NUMBER),
                            call[t], "queued")]
    /\ pc' = [pc EXCEPT ![t] = "done"]
    /\ UNCHANGED <<env_vars, call_keys, room_config, uuids, sids, data,
                   call_id, call>>

\* Lines 252-259
InitiateSetFailed(t) ==
    /\ pc[t] = "set_failed"
    /\ call_status' = SetFailed(call_status, call_id[t])
    /\ resp' = [resp EXCEPT ![t] =
                   Response(500, FALSE, call_id[t], NoneSeq, None, None)]
    /\ pc' = [pc EXCEPT ![t] = "done"]
    /\ UNCHANGED <<env_vars, call_keys, room_config, uuids, sids, data,
                   call_id, call>>

\* ------------------------------------------------------------- webhooks

\* AnswerUpdate that stores the status under a call id it does not know
\* (an assignment through setdefault)
AnswerUpdate_CreatesRecord(cs, cid) ==
    IF Truthy(cid)
    THEN IF cid \in DOMAIN cs
         THEN [cs EXCEPT ![cid].status = "answered"]
         ELSE Put(cs, cid, [status |-> "answered"])
    ELSE cs

\* twilio_answer, lines 277-278
AnswerUpdate(cs, cid) ==
    IF Truthy(cid) /\ cid \in DOMAIN cs
    THEN [cs EXCEPT ![cid].status = "answered"]
    ELSE cs

twilio_answer(cid) ==
    /\ call_status' = AnswerUpdate(call_status, cid)
    /\ UNCHANGED <<env_vars, call_keys, room_config, uuids, sids, pc, data,
                   call_id, call, resp>>

\* DialStatusUpdate that spares a record whose call has been answered
DialStatusUpdate_SparesAnswered(cs, cid, dial_call_status) ==
    IF /\ dial_call_status = "failed"
       /\ Truthy(cid)
       /\ cid \in DOMAIN cs
       /\ cs[cid].status \notin {"answered", "connected", "completed"}
    THEN [cs EXCEPT ![cid].status = "sip_failed"]
    ELSE cs

\* twilio_dial_status, lines 352-355
DialStatusUpdate(cs, cid, dial_call_status) ==
    IF dial_call_status = "failed" /\ Truthy(cid) /\ cid \in DOMAIN cs
    THEN [cs EXCEPT ![cid].status = "sip_failed"]
    ELSE cs

twilio_dial_status(cid, dial_call_status) ==
    /\ call_status' = DialStatusUpdate(call_status, cid, dial_call_status)
    /\ UNCHANGED <<env_vars, call_keys, room_config, uuids, sids, pc, data,
                   call_id, call, resp>>

\* twilio_status, lines 376-381: the first key, in insertion order, whose
\* record holds call_sid; None when there is none.
FindCallId(cs, keys, call_sid) ==
    LET hits == {i \in 1..Len(keys) : cs[keys[i]].twilio_call_sid = call_sid}
    IN IF hits = {} THEN None
       ELSE keys[CHOOSE i \in hits : \A j \in hits : i <= j]

\* status_map with every carrier phase kept under the carrier's spelling
status_map_Identity ==
    [p \in {"queued", "ringing", "in-progress", "completed", "busy", "failed",
            "no-answer", "canceled"} |-> p]

\* twilio_status, lines 385-394
status_map ==
    [p \in {"queued", "ringing", "in-progress", "completed", "busy", "failed",
            "no-answer", "canceled"} |->
        CASE p = "in-progress" -> "connected"
          [] p = "canceled" -> "cancelled"
          [] OTHER -> p]

\* MapStatus with a default of 'failed' for a phase the table lacks
MapStatus_DefaultFailed(call_status_twilio) ==
    IF call_status_twilio \in DOMAIN status_map
    THEN status_map[call_status_twilio]
    ELSE "failed"

\* status_map.get(call_status_twilio, call_status_twilio)
MapStatus(call_status_twilio) ==
    IF call_status_twilio \in DOMAIN status_map
    THEN status_map[call_status_twilio]
    ELSE call_status_twilio

\* StatusUpdate that stores the carrier phase without the table lookup
StatusUpdate_Unmapped(cs, keys, call_sid, call_status_twilio) ==
    LET cid == FindCallId(cs, keys, call_sid)
    IN IF Truthy(cid) /\ cid \in DOMAIN cs
       THEN [cs EXCEPT ![cid].status = call_status_twilio]
       ELSE cs

\* twilio_status, lines 376-397
StatusUpdate(cs, keys, call_sid, call_status_twilio) ==
    LET cid == FindCallId(cs, keys, call_sid)
    IN IF Truthy(cid) /\ cid \in DOMAIN cs
       THEN [cs EXCEPT ![cid].status = MapStatus(call_status_twilio)]
       ELSE cs

twilio_status(call_sid, call_status_twilio) ==
    /\ call_status' =
           StatusUpdate(call_status, call_keys, call_sid, call_status_twilio)
    /\ UNCHANGED <<env_vars, call_keys, room_config, uuids, sids, pc, data,
                   call_id, call, resp>>

\* What the webhook handlers return.  Response(body, mimetype='text/xml')
\* carries Flask's default status, 200.
TwiML(body) == [code |-> 200, mimetype |-> "text/xml", body |-> body]

\* Values LIVEKIT_SIP_ENDPOINT may be started with (env() strips them).
SipEndpoints ==
    { << >>, <<"h">>, <<"s", "i", "p", ":", "h">>,
      <<"s", "i", "p", ":", "@", "h">>, <<"@", "h">> }

\* twilio_answer, lines 286-299: the endpoint without a leading sip: and
\* without a leading @, behind one @.
SipUri(endpoint) ==
    LET e1 == IF StartsWith(endpoint, <<"s", "i", "p", ":">>)
              THEN SubSeq(endpoint, 5, Len(endpoint)) ELSE endpoint
        e2 == IF StartsWith(e1, <<"@">>) THEN SubSeq(e1, 2, Len(e1)) ELSE e1
    IN <<"@">> \o e2

\* twilio_answer_response whose handler has no except branch: an exception in
\* the body reaches Flask, which answers 500
twilio_answer_response_Raises(cid, endpoint, raised) ==
    IF raised
    THEN [code |-> 500, mimetype |-> "text/html", body |-> [verb |-> "none"]]
    ELSE IF TruthySeq(endpoint)
    THEN TwiML([verb |-> "Dial", sip |-> SipUri(endpoint), call_id |-> cid])
    ELSE TwiML([verb |-> "Say",
                text |-> "Connecting to AI assistant. Please wait."])

\* twilio_answer, lines 282-336: the TwiML it returns; `raised' says that a
\* statement of the try block raised, which the except branch answers.  The
\* Dial action URL is formatted with call_id, None included.
twilio_answer_response(cid, endpoint, raised) ==
    IF raised
    THEN TwiML([verb |-> "Say",
                text |-> "Sorry, there was an error connecting the call."])
    ELSE IF TruthySeq(endpoint)
    THEN TwiML([verb |-> "Dial", sip |-> SipUri(endpoint), call_id |-> cid])
    ELSE TwiML([verb |-> "Say",
                text |-> "Connecting to AI assistant. Please wait."])

\* twilio_dial_status, lines 357-364: an empty TwiML document on both paths
twilio_dial_status_response(cid, dial_call_status, raised) ==
    TwiML([verb |-> "none"])

\* twilio_status, lines 401-405: an empty body on both paths
twilio_status_response(call_sid, call_status_twilio, raised) == TwiML("")

\* The carrier redelivers status callbacks.  `sent' holds one callback that was
\* delivered and that the carrier may deliver again; NoCallback when none.
NoCallback == << >>

\* a first delivery of a status callback, which the carrier may remember
CarrierDeliverStatus(call_sid, call_status_twilio) ==
    /\ call_status' =
           StatusUpdate(call_status, call_keys, call_sid, call_status_twilio)
    /\ sent' \in {sent, <<call_sid, call_status_twilio>>}
    /\ UNCHANGED <<TWILIO_PHONE_NUMBER, twilio_client, API_BASE_URL, call_keys,
                   room_config, uuids, sids, pc, data, call_id, call, resp,
                   room_call>>

\* the remembered callback is delivered again, unchanged
CarrierRedeliverStatus ==
    /\ sent # NoCallback
    /\ call_status' = StatusUpdate(call_status, call_keys, sent[1], sent[2])
    /\ UNCHANGED <<env_vars, call_keys, room_config, uuids, sids, pc, data,
                   call_id, call, resp>>

\* ------------------------------------------------------------- lookups

\* get_call_status with the membership test left out: the subscript raises
\* KeyError for an unknown id, which Flask answers with 500
get_call_status_KeyError(cs, cid) ==
    IF ~Truthy(cid)
    THEN [code |-> 404, success |-> FALSE]
    ELSE IF cid \notin DOMAIN cs
    THEN [code |-> 500, success |-> FALSE]
    ELSE [code |-> 200, success |-> TRUE, call_id |-> cid,
          status |-> cs[cid].status, phone |-> cs[cid].phone,
          room_name |-> cs[cid].room_name,
          twilio_call_sid |-> cs[cid].twilio_call_sid]

\* get_call_status
get_call_status(cs, cid) ==
    IF ~Truthy(cid) \/ cid \notin DOMAIN cs
    THEN [code |-> 404, success |-> FALSE]
    ELSE [code |-> 200, success |-> TRUE, call_id |-> cid,
          status |-> cs[cid].status, phone |-> cs[cid].phone,
          room_name |-> cs[cid].room_name,
          twilio_call_sid |-> cs[cid].twilio_call_sid]

\* get_call_config
get_call_config(rc, room) ==
    IF ~TruthySeq(room) \/ room \notin DOMAIN rc
    THEN [code |-> 404, success |-> FALSE]
    ELSE [code |-> 200, success |-> TRUE, room_name |-> room,
          phone |-> rc[room].phone, language |-> rc[room].language,
          language_name |-> rc[room].language_name,
          prompt |-> rc[room].prompt, call_id |-> rc[room].call_id]

\* The two lookup handlers read the maps and assign nothing.
GetCallStatus(cid) == UNCHANGED vars

GetCallConfig(room) == UNCHANGED vars

\* a room name that no initiate predicts
UnknownRoom == <<"c", "a", "l", "l", "_", "9">>

\* the call ids a status lookup is made with: an id handed out by initiate
\* (stored or not), no id, an empty id, an id that was never handed out
LookupCallIds == {call_id[t] : t \in Threads} \cup {None, "", UnknownCallId}

\* the room names a config lookup is made with
LookupRooms ==
    DOMAIN room_config \cup
        {NoneSeq, << >>, PredictedRoomName(TWILIO_PHONE_NUMBER), UnknownRoom}

\* ------------------------------------------------------------- room names

\* Phone numbers generate_room_name is called with.
PhoneNumbers ==
    { <<"+", "1", "5">>, <<"1", "5">>, <<"+", "1", " ", "(", "6", ")", "-", "7">> }

\* Values of int(time.time()) and of uuid.uuid4().hex (ten of its characters).
Timestamps == {1762100000}
UuidHexes ==
    { <<"a", "b", "0", "1", "2", "3", "4", "5", "6", "7">>,
      <<"c", "d", "0", "1", "2", "3", "4", "5", "6", "7">> }

\* the str of a digit
DigitStr(n) == <<"0", "1", "2", "3", "4", "5", "6", "7", "8", "9">>[n + 1]

RECURSIVE IntStr(_)
\* the str of a natural number, as the f-string formats it
IntStr(n) ==
    IF n < 10 THEN <<DigitStr(n)>>
    ELSE IntStr(n \div 10) \o <<DigitStr(n % 10)>>

\* generate_room_name, lines 92-96
BaseName(phone_number) ==
    <<"c", "a", "l", "l", "_">> \o
        Remove(Remove(Remove(Remove(Remove(phone_number, "+"), " "), "-"),
                      "("), ")")

\* generate_room_name that returns the timestamped name without looking it up
generate_room_name_Unchecked(phone_number, existing, timestamp, hex) ==
    LET base_name == BaseName(phone_number)
    IN IF base_name \notin existing THEN base_name
       ELSE base_name \o <<"_">> \o IntStr(timestamp)

\* generate_room_name, lines 82-123; existing is the set of names list_rooms
\* returned, timestamp is int(time.time()), hex is uuid.uuid4().hex
generate_room_name(phone_number, existing, timestamp, hex) ==
    LET base_name == BaseName(phone_number)
        unique_name == base_name \o <<"_">> \o IntStr(timestamp)
    IN IF base_name \notin existing THEN base_name
       ELSE IF unique_name \notin existing THEN unique_name
       ELSE base_name \o <<"_">> \o SubSeq(hex, 1, 8)

\* Names a live room may have: the names the function can return for these
\* phone numbers, timestamps and uuids.
RoomNames ==
    UNION { {BaseName(p)}
            \cup {BaseName(p) \o <<"_">> \o IntStr(ts) : ts \in Timestamps}
            \cup {BaseName(p) \o <<"_">> \o SubSeq(h, 1, 8) : h \in UuidHexes} :
            p \in PhoneNumbers }

NoRoomCall == << >>

\* one call of generate_room_name, with its inputs kept beside the result
GenerateRoomName(phone_number, existing, timestamp, hex) ==
    /\ room_call' =
           [phone_number |-> phone_number, existing |-> existing,
            timestamp |-> timestamp, hex |-> hex,
            result |-> generate_room_name(phone_number, existing, timestamp, hex)]
    /\ UNCHANGED <<TWILIO_PHONE_NUMBER, twilio_client, API_BASE_URL, call_status,
                   call_keys, room_config, uuids, sids, pc, data, call_id,
                   call, resp, sent>>

\* ------------------------------------------------------------- the carrier

\* The carrier calls back for the calls it accepted: the answer and dial-status
\* URLs carry the call_id that calls.create was given (webhook_url, line 221;
\* the Dial action, line 309), the status callback carries the sid it returned.
\* A callback may also lack its identifier or carry one that no record has.
AcceptedThreads == {t \in Threads : call[t] # None}

CallbackCallIds == {call_id[t] : t \in AcceptedThreads} \cup {None, UnknownCallId}

\* the carrier call ids of well-formed status callbacks
WellFormedSids == {call[t] : t \in AcceptedThreads} \cup {UnknownSid}

CallbackSids == WellFormedSids \cup {None}

\* ------------------------------------------------------------- specification

Init ==
    /\ TWILIO_PHONE_NUMBER \in TwilioNumbers
    /\ twilio_client \in BOOLEAN
    /\ API_BASE_URL \in ApiBaseUrls
    /\ call_status = << >>
    /\ call_keys = << >>
    /\ room_config = << >>
    /\ uuids = 0
    /\ sids = 0
    /\ pc = [t \in Threads |-> "start"]
    /\ data = [t \in Threads |-> None]
    /\ call_id = [t \in Threads |-> None]
    /\ call = [t \in Threads |-> None]
    /\ resp = [t \in Threads |-> NoResponse]
    /\ sent = NoCallback
    /\ room_call = NoRoomCall

Next ==
    \/ \E t \in Threads, d \in Requests : InitiateStart(t, d)
    \/ \E t \in Threads : InitiateStoreConfig(t)
    \/ \E t \in Threads : InitiateDialAccepted(t)
    \/ \E t \in Threads : InitiateDialRejected(t)
    \/ \E t \in Threads : InitiateSetSid(t)
    \/ \E t \in Threads : InitiateSetQueued(t)
    \/ \E t \in Threads : InitiateSetFailed(t)
    \/ \E cid \in CallbackCallIds : twilio_answer(cid)
    \/ \E cid \in CallbackCallIds, o \in DialOutcomes :
           twilio_dial_status(cid, o)
    \/ \E sid \in CallbackSids, ph \in Phases : twilio_status(sid, ph)
    \/ \E cid \in LookupCallIds : GetCallStatus(cid)
    \/ \E room \in LookupRooms : GetCallConfig(room)

Spec == Init /\ [][Next]_vars

\* The same handlers when every status callback carries a carrier call id.
NextCarrier ==
    \/ \E t \in Threads, d \in Requests : InitiateStart(t, d)
    \/ \E t \in Threads : InitiateStoreConfig(t)
    \/ \E t \in Threads : InitiateDialAccepted(t)
    \/ \E t \in Threads : InitiateDialRejected(t)
    \/ \E t \in Threads : InitiateSetSid(t)
    \/ \E t \in Threads : InitiateSetQueued(t)
    \/ \E t \in Threads : InitiateSetFailed(t)
    \/ \E cid \in CallbackCallIds : twilio_answer(cid)
    \/ \E cid \in CallbackCallIds, o \in DialOutcomes :
           twilio_dial_status(cid, o)
    \/ \E sid \in WellFormedSids, ph \in Phases : twilio_status(sid, ph)

SpecCarrier == Init /\ [][NextCarrier]_vars

\* One call, whose status callbacks the carrier delivers and redelivers.
NextRedelivery ==
    \/ \E d \in Requests : InitiateStart(1, d)
    \/ InitiateStoreConfig(1)
    \/ InitiateDialAccepted(1)
    \/ InitiateDialRejected(1)
    \/ InitiateSetSid(1)
    \/ InitiateSetQueued(1)
    \/ InitiateSetFailed(1)
    \/ \E cid \in CallbackCallIds : twilio_answer(cid)
    \/ \E sid \in WellFormedSids, ph \in Phases : CarrierDeliverStatus(sid, ph)
    \/ CarrierRedeliverStatus

SpecRedelivery == Init /\ [][NextRedelivery]_vars

\* The room-name derivation alone: one call, for any listing of live rooms.
NextRoomName ==
    /\ room_call = NoRoomCall
    /\ \E p \in PhoneNumbers, e \in SUBSET RoomNames, ts \in Timestamps,
          h \in UuidHexes : GenerateRoomName(p, e, ts, h)

SpecRoomName == Init /\ [][NextRoomName]_vars

\* ------------------------------------------------------------- the state graph

\* the chain initiating -> queued -> ringing -> answered -> connected -> completed
Chain == <<"initiating", "queued", "ringing", "answered", "connected",
           "completed">>

ChainStates == {Chain[i] : i \in 1..Len(Chain)}

Rank(s) == CHOOSE i \in 1..Len(Chain) : Chain[i] = s

TerminalStates ==
    {"completed", "busy", "failed", "no-answer", "cancelled", "sip_failed"}

StateEnum == ChainStates \cup TerminalStates

\* a move from a later state of the chain to an earlier one
Backward(a, b) ==
    /\ a \in ChainStates
    /\ b \in ChainStates
    /\ Rank(b) < Rank(a)

StatusOf(cs, cid) == cs[cid].status

\* The table of the carrier phases as the specification gives it.
PhaseTable ==
    ("queued" :> "queued") @@ ("ringing" :> "ringing") @@
    ("in-progress" :> "connected") @@ ("completed" :> "completed") @@
    ("busy" :> "busy") @@ ("failed" :> "failed") @@
    ("no-answer" :> "no-answer") @@ ("canceled" :> "cancelled")

\* ------------------------------------------------------------- claims

\* C1: once a record's status is terminal (completed, busy, failed, no-answer,
\* cancelled, sip_failed), no later step changes that record's status.
C1_TerminalStatusIsFinal ==
    [][\A c \in DOMAIN call_status :
          StatusOf(call_status, c) \in TerminalStates
              => StatusOf(call_status', c) = StatusOf(call_status, c)]_vars

\* C2: no step moves a record's status from a later state of the chain
\* initiating, queued, ringing, answered, connected, completed to an earlier one.
C2_StatusNeverMovesBack ==
    [][\A c \in DOMAIN call_status :
          ~Backward(StatusOf(call_status, c), StatusOf(call_status', c))]_vars

\* C3: once an initiate request has returned success with room r, a config
\* lookup for r returns success with the phone, language and prompt of that
\* request and the call id it returned.
C3_ConfigIsOfTheRequest ==
    \A t \in Threads :
        (pc[t] = "done" /\ resp[t].success) =>
            LET r == get_call_config(room_config, resp[t].predicted_room_name)
            IN /\ r.success
               /\ r.phone = data[t].phone_number
               /\ r.language = GetOr(data[t].language, "en-US")
               /\ r.prompt = data[t].prompt
               /\ r.call_id = resp[t].call_id

\* C4: whenever initiate issues the dial to the carrier, the CallRecord of the
\* call and the RoomConfig of its room are already in the store; and a record
\* enters the store in status initiating.
C4_StoredBeforeDial ==
    [][/\ \A t \in Threads :
             (pc[t] = "dial" /\ pc'[t] # "dial") =>
                 /\ call_id[t] \in DOMAIN call_status
                 /\ PredictedRoomName(TWILIO_PHONE_NUMBER) \in DOMAIN room_config
                 /\ call_status[call_id[t]].room_name \in DOMAIN room_config
       /\ \A c \in DOMAIN call_status' \ DOMAIN call_status :
             StatusOf(call_status', c) = "initiating"]_vars

\* C4 witness: the carrier has accepted a dial, and the record and the config
\* of that call are in the store.
C4_Witness ==
    \E t \in Threads :
        /\ pc[t] = "set_sid"
        /\ call_id[t] \in DOMAIN call_status
        /\ call_status[call_id[t]].room_name \in DOMAIN room_config

\* C5: redelivering a status callback that was delivered before (same carrier
\* call id, same phase) never moves a record's status backward along the chain.
C5_RedeliveryNeverMovesBack ==
    [][CarrierRedeliverStatus =>
          \A c \in DOMAIN call_status :
              ~Backward(StatusOf(call_status, c), StatusOf(call_status', c))]_vars

\* C6 as stated: for every CallRecord, the status lookup by its call_id
\* reports a status that is a member of the state enum.
C6_StatusInEnum ==
    \A c \in DOMAIN call_status :
        LET r == get_call_status(call_status, c)
        IN r.success /\ r.status \in StateEnum

\* C6 as amended: for every CallRecord, the status lookup by its call_id
\* reports a status that is a member of the state enum or a value that a
\* status callback may carry and that the table does not map (stored
\* verbatim; the absent phase included).
C6_StatusInEnumOrPassedThrough ==
    \A c \in DOMAIN call_status :
        LET r == get_call_status(call_status, c)
        IN /\ r.success
           /\ r.status = StatusOf(call_status, c)
           /\ \/ r.status \in StateEnum
              \/ r.status \in Phases \ DOMAIN PhaseTable

\* C6 witness: a record with a status of the enum beside a record whose
\* status came verbatim from a callback.
C6_Witness ==
    \E c, e \in DOMAIN call_status :
        /\ StatusOf(call_status, c) \in StateEnum
        /\ StatusOf(call_status, e) \notin StateEnum
        /\ get_call_status(call_status, e).status = StatusOf(call_status, e)

\* the records that hold the carrier call id of a callback
Matching(cs, call_sid) ==
    {c \in DOMAIN cs : call_sid # None /\ cs[c].twilio_call_sid = call_sid}

\* C7: in every reachable state, a status callback whose carrier call id a
\* record holds and whose phase is in the table sets that record's status to
\* the table's image of the phase, and the status lookup then reports it.
C7_MappedPhaseIsStored ==
    \A sid \in CallbackSids, ph \in DOMAIN PhaseTable :
        LET after == StatusUpdate(call_status, call_keys, sid, ph)
        IN \A c \in Matching(call_status, sid) :
               /\ StatusOf(after, c) = PhaseTable[ph]
               /\ get_call_status(after, c).status = PhaseTable[ph]

\* C7 witness: a record that holds a carrier call id is connected; only the
\* phase in-progress of a status callback gives that status.
C7_Witness ==
    \E c \in DOMAIN call_status :
        /\ call_status[c].twilio_call_sid # None
        /\ StatusOf(call_status, c) = "connected"

\* C8: in every reachable state, a status callback whose carrier call id a
\* record holds and whose phase is not in the table is not rejected: the
\* record's status becomes the phase as delivered.
C8_UnmappedPhaseIsStoredVerbatim ==
    \A sid \in CallbackSids, ph \in Phases \ DOMAIN PhaseTable :
        LET after == StatusUpdate(call_status, call_keys, sid, ph)
        IN \A c \in Matching(call_status, sid) : StatusOf(after, c) = ph

\* C8 witness: a record that holds a carrier call id has the status
\* weird-phase.
C8_Witness ==
    \E c \in DOMAIN call_status :
        /\ call_status[c].twilio_call_sid # None
        /\ StatusOf(call_status, c) = "weird-phase"

\* C9: in every reachable state, a dial-status callback with the outcome
\* failed for a known call id sets that record's status to sip_failed whatever
\* it was and touches no other record; with any other outcome the callback
\* changes no status.
C9_DialFailureForcesSipFailed ==
    \A cid \in CallbackCallIds, o \in DialOutcomes :
        LET after == DialStatusUpdate(call_status, cid, o)
        IN IF o = "failed" /\ cid \in DOMAIN call_status
           THEN /\ StatusOf(after, cid) = "sip_failed"
                /\ \A c \in DOMAIN call_status \ {cid} :
                      after[c] = call_status[c]
           ELSE after = call_status

\* C9 witness: a record is sip_failed.
C9_Witness ==
    \E c \in DOMAIN call_status : StatusOf(call_status, c) = "sip_failed"

\* C10: when the carrier accepts the dial, initiate records the carrier call
\* id on the record and sets its status to queued; when the carrier rejects
\* it, initiate sets the status to failed and the carrier call id stays null.
C10_DialOutcomeIsRecorded ==
    [][\A t \in Threads :
          /\ InitiateSetSid(t) =>
                 call_status'[call_id[t]].twilio_call_sid = call[t]
          /\ InitiateSetQueued(t) =>
                 /\ StatusOf(call_status', call_id[t]) = "queued"
                 /\ call_status'[call_id[t]].twilio_call_sid = call[t]
                 /\ call[t] # None
          /\ InitiateSetFailed(t) =>
                 /\ StatusOf(call_status', call_id[t]) = "failed"
                 /\ call_status'[call_id[t]].twilio_call_sid = None]_vars

\* C10 witness: one initiate has returned after an accepted dial, another
\* after a rejected one.
C10_Witness ==
    \E t, u \in Threads :
        /\ pc[t] = "done" /\ resp[t].status = "queued"
        /\ call_status[call_id[t]].twilio_call_sid = call[t]
        /\ pc[u] = "done" /\ resp[u].code = 500 /\ call_id[u] # None
        /\ call_status[call_id[u]].twilio_call_sid = None

\* a request that passes the validation of initiate_call
ValidRequest(d) == TruthySeq(d.phone_number) /\ Truthy(d.prompt)

\* C11 as stated: a valid initiate made while the carrier integration is not
\* configured (no client or no source number) creates the CallRecord and the
\* RoomConfig and returns success with status ready.
C11_UnconfiguredDialStillSucceeds ==
    \A t \in Threads :
        ( /\ pc[t] = "done"
          /\ ValidRequest(data[t])
          /\ (~twilio_client \/ ~TruthySeq(TWILIO_PHONE_NUMBER)) ) =>
            /\ resp[t].success
            /\ resp[t].status = "ready"
            /\ resp[t].call_id \in DOMAIN call_status
            /\ resp[t].predicted_room_name \in DOMAIN room_config

\* C11 as amended: with a source number and no carrier client, a valid
\* initiate creates the CallRecord and the RoomConfig and returns success with
\* status ready; with no source number it fails with a 500 error.
C11_NoClientStillSucceeds ==
    \A t \in Threads :
        (pc[t] = "done" /\ ValidRequest(data[t])) =>
            /\ (~twilio_client /\ TruthySeq(TWILIO_PHONE_NUMBER)) =>
                   /\ resp[t].success
                   /\ resp[t].code = 200
                   /\ resp[t].status = "ready"
                   /\ resp[t].call_id = call_id[t]
                   /\ call_id[t] \in DOMAIN call_status
                   /\ resp[t].predicted_room_name \in DOMAIN room_config
                   /\ call_status[call_id[t]].room_name =
                          resp[t].predicted_room_name
            /\ ~TruthySeq(TWILIO_PHONE_NUMBER) =>
                   /\ ~resp[t].success
                   /\ resp[t].code = 500

\* C11 witness: without a carrier client an initiate has returned ready, and
\* its record and config are stored.
C11_Witness ==
    \E t \in Threads :
        /\ pc[t] = "done"
        /\ ~twilio_client
        /\ resp[t].success
        /\ resp[t].status = "ready"
        /\ call_id[t] \in DOMAIN call_status
        /\ resp[t].predicted_room_name \in DOMAIN room_config

\* C12: two initiations that predict a room for the same caller number never
\* share a room identifier: the records of two distinct calls hold different
\* room names, so they do not share a RoomConfig key.
C12_RoomsAreDistinct ==
    \A c1 \in DOMAIN call_status : \A c2 \in DOMAIN call_status :
        c1 # c2 => call_status[c1].room_name # call_status[c2].room_name

\* C13: once a CallRecord's carrier call id is non-null, no later step changes
\* it or resets it to null (and the record is never removed).
C13_CallSidIsWriteOnce ==
    [][\A c \in DOMAIN call_status :
          call_status[c].twilio_call_sid # None =>
              /\ c \in DOMAIN call_status'
              /\ call_status'[c].twilio_call_sid =
                     call_status[c].twilio_call_sid]_vars

\* C13 witness: a record that holds a carrier call id has since been through
\* the queued write and a status callback, and its initiate has returned.
C13_Witness ==
    \E t \in Threads :
        /\ pc[t] = "done"
        /\ call_id[t] \in DOMAIN call_status
        /\ call_status[call_id[t]].twilio_call_sid # None
        /\ call_status[call_id[t]].status = "completed"

\* C14: once a RoomConfig is written for a room identifier, no later step,
\* later initiate requests included, changes its phone, language, prompt or
\* originating call id, and none removes it.
C14_RoomConfigIsImmutable ==
    [][\A r \in DOMAIN room_config :
          /\ r \in DOMAIN room_config'
          /\ room_config'[r] = room_config[r]]_vars

\* the answer of a lookup that finds nothing
NotFound == [code |-> 404, success |-> FALSE]

\* C15: a status lookup with a missing or unknown call id and a config lookup
\* with a missing or unknown room id each answer not-found (success false,
\* 404), never a server error, and leave both maps unchanged.
C15_MissingLookupIsNotFound ==
    /\ [](\A cid \in LookupCallIds :
             (~Truthy(cid) \/ cid \notin DOMAIN call_status) =>
                 get_call_status(call_status, cid) = NotFound)
    /\ [](\A room \in LookupRooms :
             (~TruthySeq(room) \/ room \notin DOMAIN room_config) =>
                 get_call_config(room_config, room) = NotFound)
    /\ [][(\/ \E cid \in LookupCallIds : GetCallStatus(cid)
           \/ \E room \in LookupRooms : GetCallConfig(room)) =>
              /\ call_status' = call_status
              /\ room_config' = room_config]_vars

\* C15 witness: both maps hold an entry, and lookups are made with an id that
\* was handed out but never stored, or was never handed out, and with a room
\* name that has no config.
C15_Witness ==
    /\ call_status # << >>
    /\ room_config # << >>
    /\ \E cid \in LookupCallIds : Truthy(cid) /\ cid \notin DOMAIN call_status
    /\ \E room \in LookupRooms : TruthySeq(room) /\ room \notin DOMAIN room_config
    /\ \A cid \in LookupCallIds \ DOMAIN call_status :
           get_call_status(call_status, cid).code = 404
    /\ \A room \in LookupRooms \ DOMAIN room_config :
           get_call_config(room_config, room).code = 404

\* C16: an initiate request whose phone number or prompt is absent or empty
\* fails with invalid-request (400, success false), creates no CallRecord and
\* no RoomConfig, allocates no call id and places no dial.
C16_InvalidRequestCreatesNothing ==
    [][\A t \in Threads :
          ( /\ pc[t] = "start"
            /\ pc'[t] # "start"
            /\ \/ data'[t].phone_number \in {NoneSeq, << >>}
               \/ data'[t].prompt \in {None, ""} ) =>
              /\ resp'[t].code = 400
              /\ ~resp'[t].success
              /\ resp'[t].call_id = None
              /\ pc'[t] = "done"
              /\ call_status' = call_status
              /\ call_keys' = call_keys
              /\ room_config' = room_config
              /\ sids' = sids
              /\ call' = call
              /\ call_id'[t] = None]_vars

\* C16 witness: a request with an empty prompt was answered 400 and has no
\* call id, while the record and the config of another call are stored.
C16_Witness ==
    \E t \in Threads :
        /\ pc[t] = "done"
        /\ data[t].prompt = ""
        /\ resp[t].code = 400
        /\ call_id[t] = None
        /\ Cardinality(DOMAIN call_status) = 1
        /\ Cardinality(DOMAIN room_config) = 1

\* C17: an initiate that fails after its call id was allocated returns that
\* call id in the failure response, and a status lookup with that id then
\* finds the call.
C17_FailureCarriesCallId ==
    \A t \in Threads :
        (pc[t] = "done" /\ ~resp[t].success /\ call_id[t] # None) =>
            /\ resp[t].call_id = call_id[t]
            /\ get_call_status(call_status, call_id[t]).success

\* C18 as stated: the status a successful initiate returns equals the status
\* stored in the CallRecord at the moment initiate returns.
C18_ReturnedStatusIsStored ==
    [][\A t \in Threads :
          (pc[t] # "done" /\ pc'[t] = "done" /\ resp'[t].success) =>
              /\ call_id[t] \in DOMAIN call_status'
              /\ resp'[t].status = call_status'[call_id[t]].status]_vars

\* C18 as amended: a successful initiate that placed the dial returns queued,
\* the status it writes to the CallRecord as it returns, with the record's
\* carrier call id; a successful initiate without a carrier client returns
\* ready, which is never a stored status, and leaves the stored status as it is.
C18_ReturnedStatusIsQueuedOrReady ==
    [][\A t \in Threads :
          (pc[t] # "done" /\ pc'[t] = "done" /\ resp'[t].success) =>
              /\ resp'[t].call_id = call_id[t]
              /\ call_id[t] \in DOMAIN call_status'
              /\ \/ /\ twilio_client
                    /\ resp'[t].status = "queued"
                    /\ call_status'[call_id[t]].status = "queued"
                    /\ resp'[t].twilio_call_sid # None
                    /\ resp'[t].twilio_call_sid =
                           call_status'[call_id[t]].twilio_call_sid
                 \/ /\ ~twilio_client
                    /\ resp'[t].status = "ready"
                    /\ call_status'[call_id[t]].status # "ready"
                    /\ call_status'[call_id[t]].status =
                           call_status[call_id[t]].status]_vars

\* C18 witness: an initiate has returned ready while its record holds
\* initiating.
C18_Witness ==
    \E t \in Threads :
        /\ pc[t] = "done"
        /\ resp[t].success
        /\ resp[t].status = "ready"
        /\ call_id[t] \in DOMAIN call_status
        /\ call_status[call_id[t]].status = "initiating"

\* C19: each of the three webhook handlers returns a normal, non-error
\* response (200, text/xml) for every delivery, also when the identifier is
\* missing or matches no CallRecord and when the handler's body raised.
C19_WebhooksAnswerNormally ==
    /\ \A cid \in CallbackCallIds \cup {""} :
       \A endpoint \in SipEndpoints : \A raised \in BOOLEAN :
           /\ twilio_answer_response(cid, endpoint, raised).code = 200
           /\ twilio_answer_response(cid, endpoint, raised).mimetype = "text/xml"
    /\ \A cid \in CallbackCallIds \cup {""} :
       \A o \in DialOutcomes : \A raised \in BOOLEAN :
           /\ twilio_dial_status_response(cid, o, raised).code = 200
           /\ twilio_dial_status_response(cid, o, raised).mimetype = "text/xml"
    /\ \A sid \in CallbackSids \cup {""} :
       \A ph \in Phases : \A raised \in BOOLEAN :
           /\ twilio_status_response(sid, ph, raised).code = 200
           /\ twilio_status_response(sid, ph, raised).mimetype = "text/xml"

\* C19 witness: the carrier has accepted a call, and webhooks are delivered
\* with no identifier and with one that matches no record; the answer webhook
\* without call id still returns the Dial document.
C19_Witness ==
    /\ AcceptedThreads # {}
    /\ UnknownCallId \notin DOMAIN call_status
    /\ FindCallId(call_status, call_keys, UnknownSid) = None
    /\ twilio_answer_response(None, <<"s", "i", "p", ":", "@", "h">>, FALSE) =
           TwiML([verb |-> "Dial", sip |-> <<"@", "h">>, call_id |-> None])
    /\ twilio_answer_response(UnknownCallId, << >>, TRUE).body.verb = "Say"
    /\ twilio_status_response(UnknownSid, "completed", FALSE) = TwiML("")

\* the records of cs2 that differ from the record cs1 holds under the same id
Changed(cs1, cs2) == {c \in DOMAIN cs1 : cs2[c] # cs1[c]}

\* C20: a webhook delivery changes at most the status field of one existing
\* CallRecord: it creates and removes no record, changes no other field and
\* leaves the RoomConfig map alone; the two lookups change neither map.  (The
\* steps that leave every initiate where it is are the webhook deliveries and
\* the lookups.)
C20_WebhookWritesOneStatus ==
    [][/\ pc' = pc =>
            /\ room_config' = room_config
            /\ DOMAIN call_status' = DOMAIN call_status
            /\ call_keys' = call_keys
            /\ Cardinality(Changed(call_status, call_status')) <= 1
            /\ \A c \in DOMAIN call_status :
                   [call_status'[c] EXCEPT !.status = call_status[c].status] =
                       call_status[c]
       /\ (\/ \E cid \in LookupCallIds : GetCallStatus(cid)
           \/ \E room \in LookupRooms : GetCallConfig(room)) =>
              /\ call_status' = call_status
              /\ room_config' = room_config]_vars

\* C20 witness: with two CallRecords stored, webhooks have changed the status
\* of each (one answered, one sip_failed) and a RoomConfig is in place.
C20_Witness ==
    /\ Cardinality(DOMAIN call_status) = 2
    /\ room_config # << >>
    /\ \E c1 \in DOMAIN call_status : \E c2 \in DOMAIN call_status :
           /\ call_status[c1].status = "answered"
           /\ call_status[c2].status = "sip_failed"

\* C21: a status callback changes a CallRecord only when the record's stored
\* carrier call id is the non-null id the callback carries; a callback with no
\* carrier call id, or with one that no record holds, changes no record.
C21_StatusCallbackMatchesBySid ==
    \A sid \in CallbackSids : \A ph \in Phases :
        \A c \in DOMAIN call_status :
            StatusUpdate(call_status, call_keys, sid, ph)[c] # call_status[c] =>
                /\ sid # None
                /\ call_status[c].twilio_call_sid = sid

\* C22: every status callback the carrier delivers for a call it has accepted
\* finds that call's CallRecord and updates its status, also when it is handled
\* before initiate has recorded the carrier call id; none is dropped.
C22_AcceptedCallbackIsApplied ==
    \A t \in AcceptedThreads : \A ph \in Phases :
        /\ FindCallId(call_status, call_keys, call[t]) = call_id[t]
        /\ StatusUpdate(call_status, call_keys, call[t], ph)[call_id[t]].status =
               MapStatus(ph)

\* C23: a status that a webhook handler wrote to a CallRecord is never
\* overwritten by the initiating request's own later write of queued or failed:
\* when initiate writes, the record still holds initiating (or already the
\* value initiate writes).
C23_InitiateKeepsWebhookStatus ==
    [][\A t \in Threads :
          /\ (pc[t] = "set_queued" /\ pc'[t] = "done") =>
                 call_status[call_id[t]].status \in {"initiating", "queued"}
          /\ (pc[t] = "set_failed" /\ pc'[t] = "done") =>
                 call_status[call_id[t]].status \in {"initiating", "failed"}]_vars

\* the digits of a phone number, in order
DigitsOf(phone_number) ==
    SelectSeq(phone_number,
              LAMBDA ch : ch \in {"0", "1", "2", "3", "4", "5", "6", "7", "8", "9"})

====
